---- MODULE Spec2Model ----
(***************************************************************************)
(* Bidirectional link-path search of src/main.py: Page, Tree and Game.     *)
(* Pages are identified by their name (Page.__eq__/__hash__), here a node  *)
(* number; the hyperlink graph is the set `links` of (from, to) pairs.     *)
(***************************************************************************)
EXTENDS Integers, Sequences, FiniteSets, TLC

\* ---------------------------------------------------------------- bounds
NumNodes == 4
MaxEdges == 4
MaxCount == 2
MaxCalls == 2
MaxExtra == 2

\* the pages the enumerated graphs link
Nodes == 1..NumNodes
\* all page names: one more, the fifth page of the scenario graphs
Pages == 1..(NumNodes + 1)
None == 0

\* every set of at most k links out of the candidates cand
RECURSIVE LinkSetsUpTo(_, _)
LinkSetsUpTo(cand, k) ==
    IF k = 0 THEN {{}}
    ELSE LET G == LinkSetsUpTo(cand, k - 1)
         IN  G \cup {g \cup {e} : g \in G, e \in cand}

\* every graph on Nodes with at most k links
GraphsUpTo(k) == LinkSetsUpTo(Nodes \X Nodes, k)

\* the scenario: start A = 1 links to exactly B = 2 and C = 3, goal D = 4 is
\* linked from exactly B = 2 and E = 5; the other links of the graph are free
ScenarioLinks == {<<1, 2>>, <<1, 3>>, <<2, 4>>, <<5, 4>>}

ScenarioRoots == <<1, 4>>

ScenarioFree == {e \in (1..5) \X (1..5) : e[1] # 1 /\ e[2] # 4}

ScenarioGraphs ==
    {ScenarioLinks \cup x : x \in LinkSetsUpTo(ScenarioFree, MaxExtra)}

\* the (start, goal) pairs; all others are these up to renaming of the pages
RootPairs == {<<1, 1>>, <<1, 2>>}

\* links out of page n and into it, as one number
Signature(g, n) ==
    Cardinality({e \in g : e[1] = n}) * (NumNodes + 1)
        + Cardinality({e \in g : e[2] = n})

\* every graph is, up to renaming of the pages that are neither start nor
\* goal, one in which those pages are numbered by non-increasing signature
Canonical(g, rp) ==
    \A m, n \in Nodes \ {rp[1], rp[2]} :
        m < n => Signature(g, m) >= Signature(g, n)

VARIABLES
    links,              \* the hyperlink graph: set of <<from, to>>
    startTree,          \* Game.startTree (Tree, isStarting = TRUE)
    endTree,            \* Game.endTree (Tree, isStarting = FALSE)
    searchIndex,        \* Game.searchIndex
    paths,              \* Game.paths
    pc,                 \* position inside Game.search: "idle", "start", "end"
    count,              \* search's argument
    targetIndex,        \* search's local
    originalStartIndex, \* search's local
    result,             \* the list returned by the last finished search call
    err,                \* "none", or the exception that escaped
    hist                \* bookkeeping about the calls made so far

vars == <<links, startTree, endTree, searchIndex, paths, pc, count,
          targetIndex, originalStartIndex, result, err, hist>>

\* ------------------------------------------------------------- utilities
SetMin(S) == CHOOSE x \in S : \A y \in S : x <= y

Reverse(s) == [i \in 1..Len(s) |-> s[Len(s) + 1 - i]]

\* Python's xs[a:b] for 0 <= a, on a 1-indexed sequence
Slice(xs, a, b) ==
    LET hi == IF b < Len(xs) THEN b ELSE Len(xs)
    IN  IF hi <= a THEN <<>> ELSE [i \in 1..(hi - a) |-> xs[a + i]]

\* every enumeration of the finite set S without repetition
Orderings(S) ==
    {s \in [1..Cardinality(S) -> S] : \A i, j \in DOMAIN s : i # j => s[i] # s[j]}

\* ------------------------------------------------------------------ Tree
\* Tree.__init__
NewTree(root, isStarting) ==
    [root       |-> root,
     isStarting |-> isStarting,
     endpoints  |-> {root},
     queue      |-> {root},
     queueLevel |-> 0,
     levels     |-> <<{root}>>,
     parent     |-> [n \in Pages |-> None]]

\* getChildren as it would be if the ending tree followed outgoing links too
getChildrenForwardOnly(t, searchPage, g) ==
    {v \in Pages : <<searchPage, v>> \in g}

\* Tree.getChildren: the pages searchPage links to (starting tree) or the
\* pages that link to searchPage (ending tree)
getChildren(t, searchPage, g) ==
    IF t.isStarting
    THEN {v \in Pages : <<searchPage, v>> \in g}
    ELSE {v \in Pages : <<v, searchPage>> \in g}

AllLevels(levels) == UNION {levels[i] : i \in DOMAIN levels}

\* explore as it would be if the searched page stayed among the endpoints
exploreKeepEndpoint(t, searchPage, g) ==
    LET queue1     == t.queue \ {searchPage}
        children   == getChildren(t, searchPage, g)
        levels1    == IF t.queueLevel = Len(t.levels) - 1
                      THEN Append(t.levels, {})
                      ELSE t.levels
        unseen     == children \ AllLevels(levels1)
        levels2    == [levels1 EXCEPT ![Len(levels1)] = @ \cup unseen]
        endpoints2 == t.endpoints \cup unseen
        parent2    == [n \in Pages |-> IF n \in unseen THEN searchPage
                                       ELSE t.parent[n]]
        t2         == [t EXCEPT !.queue = queue1, !.endpoints = endpoints2,
                                !.levels = levels2, !.parent = parent2]
    IN  IF queue1 = {}
        THEN LET ql == t.queueLevel + 1
             IN  IF levels2[ql + 1] = {}
                 THEN [tree |-> [t2 EXCEPT !.queueLevel = ql],
                       ok |-> FALSE, new |-> {}, last |-> FALSE]
                 ELSE [tree |-> [t2 EXCEPT !.queueLevel = ql,
                                           !.queue = levels2[ql + 1]],
                       ok |-> TRUE, new |-> unseen, last |-> TRUE]
        ELSE [tree |-> t2, ok |-> TRUE, new |-> unseen, last |-> FALSE]

\* explore as it would be without the test for an empty next level
exploreNeverFails(t, searchPage, g) ==
    LET queue1     == t.queue \ {searchPage}
        endpoints1 == t.endpoints \ {searchPage}
        children   == getChildren(t, searchPage, g)
        levels1    == IF t.queueLevel = Len(t.levels) - 1
                      THEN Append(t.levels, {})
                      ELSE t.levels
        unseen     == children \ AllLevels(levels1)
        levels2    == [levels1 EXCEPT ![Len(levels1)] = @ \cup unseen]
        endpoints2 == endpoints1 \cup unseen
        parent2    == [n \in Pages |-> IF n \in unseen THEN searchPage
                                       ELSE t.parent[n]]
        t2         == [t EXCEPT !.queue = queue1, !.endpoints = endpoints2,
                                !.levels = levels2, !.parent = parent2]
    IN  IF queue1 = {}
        THEN LET ql == t.queueLevel + 1
             IN  [tree |-> [t2 EXCEPT !.queueLevel = ql,
                                      !.queue = levels2[ql + 1]],
                  ok |-> TRUE, new |-> unseen, last |-> TRUE]
        ELSE [tree |-> t2, ok |-> TRUE, new |-> unseen, last |-> FALSE]

\* explore as it would be if it returned all children, seen before or not
exploreReturnsChildren(t, searchPage, g) ==
    LET queue1     == t.queue \ {searchPage}
        endpoints1 == t.endpoints \ {searchPage}
        children   == getChildren(t, searchPage, g)
        levels1    == IF t.queueLevel = Len(t.levels) - 1
                      THEN Append(t.levels, {})
                      ELSE t.levels
        unseen     == children \ AllLevels(levels1)
        levels2    == [levels1 EXCEPT ![Len(levels1)] = @ \cup unseen]
        endpoints2 == endpoints1 \cup unseen
        parent2    == [n \in Pages |-> IF n \in unseen THEN searchPage
                                       ELSE t.parent[n]]
        t2         == [t EXCEPT !.queue = queue1, !.endpoints = endpoints2,
                                !.levels = levels2, !.parent = parent2]
    IN  IF queue1 = {}
        THEN LET ql == t.queueLevel + 1
             IN  IF levels2[ql + 1] = {}
                 THEN [tree |-> [t2 EXCEPT !.queueLevel = ql],
                       ok |-> FALSE, new |-> {}, last |-> FALSE]
                 ELSE [tree |-> [t2 EXCEPT !.queueLevel = ql,
                                           !.queue = levels2[ql + 1]],
                       ok |-> TRUE, new |-> children, last |-> TRUE]
        ELSE [tree |-> t2, ok |-> TRUE, new |-> children, last |-> FALSE]

\* explore as it would be if every child, seen before or not, took the
\* searched page as its parent
exploreLastParentWins(t, searchPage, g) ==
    LET queue1     == t.queue \ {searchPage}
        endpoints1 == t.endpoints \ {searchPage}
        children   == getChildren(t, searchPage, g)
        levels1    == IF t.queueLevel = Len(t.levels) - 1
                      THEN Append(t.levels, {})
                      ELSE t.levels
        unseen     == children \ AllLevels(levels1)
        levels2    == [levels1 EXCEPT ![Len(levels1)] = @ \cup unseen]
        endpoints2 == endpoints1 \cup unseen
        parent2    == [n \in Pages |-> IF n \in children THEN searchPage
                                       ELSE t.parent[n]]
        t2         == [t EXCEPT !.queue = queue1, !.endpoints = endpoints2,
                                !.levels = levels2, !.parent = parent2]
    IN  IF queue1 = {}
        THEN LET ql == t.queueLevel + 1
             IN  IF levels2[ql + 1] = {}
                 THEN [tree |-> [t2 EXCEPT !.queueLevel = ql],
                       ok |-> FALSE, new |-> {}, last |-> FALSE]
                 ELSE [tree |-> [t2 EXCEPT !.queueLevel = ql,
                                           !.queue = levels2[ql + 1]],
                       ok |-> TRUE, new |-> unseen, last |-> TRUE]
        ELSE [tree |-> t2, ok |-> TRUE, new |-> unseen, last |-> FALSE]

\* explore as it would be if every call started a new level
exploreAlwaysNewLevel(t, searchPage, g) ==
    LET queue1     == t.queue \ {searchPage}
        endpoints1 == t.endpoints \ {searchPage}
        children   == getChildren(t, searchPage, g)
        levels1    == Append(t.levels, {})
        unseen     == children \ AllLevels(levels1)
        levels2    == [levels1 EXCEPT ![Len(levels1)] = @ \cup unseen]
        endpoints2 == endpoints1 \cup unseen
        parent2    == [n \in Pages |-> IF n \in unseen THEN searchPage
                                       ELSE t.parent[n]]
        t2         == [t EXCEPT !.queue = queue1, !.endpoints = endpoints2,
                                !.levels = levels2, !.parent = parent2]
    IN  IF queue1 = {}
        THEN LET ql == t.queueLevel + 1
             IN  IF levels2[ql + 1] = {}
                 THEN [tree |-> [t2 EXCEPT !.queueLevel = ql],
                       ok |-> FALSE, new |-> {}, last |-> FALSE]
                 ELSE [tree |-> [t2 EXCEPT !.queueLevel = ql,
                                           !.queue = levels2[ql + 1]],
                       ok |-> TRUE, new |-> unseen, last |-> TRUE]
        ELSE [tree |-> t2, ok |-> TRUE, new |-> unseen, last |-> FALSE]

\* explore as it would be if it left the level for the next one as soon as
\* a new child is found
exploreLeavesLevel(t, searchPage, g) ==
    LET queue1     == t.queue \ {searchPage}
        endpoints1 == t.endpoints \ {searchPage}
        children   == getChildren(t, searchPage, g)
        levels1    == IF t.queueLevel = Len(t.levels) - 1
                      THEN Append(t.levels, {})
                      ELSE t.levels
        unseen     == children \ AllLevels(levels1)
        levels2    == [levels1 EXCEPT ![Len(levels1)] = @ \cup unseen]
        endpoints2 == endpoints1 \cup unseen
        parent2    == [n \in Pages |-> IF n \in unseen THEN searchPage
                                       ELSE t.parent[n]]
        t2         == [t EXCEPT !.queue = queue1, !.endpoints = endpoints2,
                                !.levels = levels2, !.parent = parent2]
    IN  IF queue1 = {} \/ unseen # {}
        THEN LET ql == t.queueLevel + 1
             IN  IF levels2[ql + 1] = {}
                 THEN [tree |-> [t2 EXCEPT !.queueLevel = ql],
                       ok |-> FALSE, new |-> {}, last |-> FALSE]
                 ELSE [tree |-> [t2 EXCEPT !.queueLevel = ql,
                                           !.queue = levels2[ql + 1]],
                       ok |-> TRUE, new |-> unseen, last |-> TRUE]
        ELSE [tree |-> t2, ok |-> TRUE, new |-> unseen, last |-> FALSE]

\* explore as it would be if the searched page stayed in the queue
exploreKeepsQueue(t, searchPage, g) ==
    LET queue1     == t.queue
        endpoints1 == t.endpoints \ {searchPage}
        children   == getChildren(t, searchPage, g)
        levels1    == IF t.queueLevel = Len(t.levels) - 1
                      THEN Append(t.levels, {})
                      ELSE t.levels
        unseen     == children \ AllLevels(levels1)
        levels2    == [levels1 EXCEPT ![Len(levels1)] = @ \cup unseen]
        endpoints2 == endpoints1 \cup unseen
        parent2    == [n \in Pages |-> IF n \in unseen THEN searchPage
                                       ELSE t.parent[n]]
        t2         == [t EXCEPT !.queue = queue1, !.endpoints = endpoints2,
                                !.levels = levels2, !.parent = parent2]
    IN  IF queue1 = {}
        THEN LET ql == t.queueLevel + 1
             IN  IF levels2[ql + 1] = {}
                 THEN [tree |-> [t2 EXCEPT !.queueLevel = ql],
                       ok |-> FALSE, new |-> {}, last |-> FALSE]
                 ELSE [tree |-> [t2 EXCEPT !.queueLevel = ql,
                                           !.queue = levels2[ql + 1]],
                       ok |-> TRUE, new |-> unseen, last |-> TRUE]
        ELSE [tree |-> t2, ok |-> TRUE, new |-> unseen, last |-> FALSE]

\* Tree.explore with searchPage the page that queue.pop() hands out.
\* Yields the tree afterwards and the returned tuple (ok, new, last).
explore(t, searchPage, g) ==
    LET queue1     == t.queue \ {searchPage}
        endpoints1 == t.endpoints \ {searchPage}
        children   == getChildren(t, searchPage, g)
        levels1    == IF t.queueLevel = Len(t.levels) - 1
                      THEN Append(t.levels, {})
                      ELSE t.levels
        unseen     == children \ AllLevels(levels1)
        levels2    == [levels1 EXCEPT ![Len(levels1)] = @ \cup unseen]
        endpoints2 == endpoints1 \cup unseen
        parent2    == [n \in Pages |-> IF n \in unseen THEN searchPage
                                       ELSE t.parent[n]]
        t2         == [t EXCEPT !.queue = queue1, !.endpoints = endpoints2,
                                !.levels = levels2, !.parent = parent2]
    IN  IF queue1 = {}
        THEN LET ql == t.queueLevel + 1
             IN  IF levels2[ql + 1] = {}
                 THEN [tree |-> [t2 EXCEPT !.queueLevel = ql],
                       ok |-> FALSE, new |-> {}, last |-> FALSE]
                 ELSE [tree |-> [t2 EXCEPT !.queueLevel = ql,
                                           !.queue = levels2[ql + 1]],
                       ok |-> TRUE, new |-> unseen, last |-> TRUE]
        ELSE [tree |-> t2, ok |-> TRUE, new |-> unseen, last |-> FALSE]

\* ------------------------------------------------------------------ Game
\* the Game object, the activation of search and the call history, as one
\* value (the operators below are functions of it)
State ==
    [startTree |-> startTree, endTree |-> endTree, searchIndex |-> searchIndex,
     paths |-> paths, pc |-> pc, count |-> count, targetIndex |-> targetIndex,
     originalStartIndex |-> originalStartIndex, result |-> result,
     err |-> err, hist |-> hist]

Install(s) ==
    /\ startTree' = s.startTree
    /\ endTree' = s.endTree
    /\ searchIndex' = s.searchIndex
    /\ paths' = s.paths
    /\ pc' = s.pc
    /\ count' = s.count
    /\ targetIndex' = s.targetIndex
    /\ originalStartIndex' = s.originalStartIndex
    /\ result' = s.result
    /\ err' = s.err
    /\ hist' = s.hist

NoHist ==
    [calls |-> 0, requested |-> 0, delivered |-> <<>>, pops |-> <<>>,
     mids |-> <<>>, expands |-> 0,
     served |-> 0, failed |-> FALSE, exhaustedAtStart |-> FALSE, indexAtCall |-> 0,
     storedAtCall |-> 0, midAtCall |-> "none",
     lastExplore |-> [side |-> "none", ok |-> TRUE]]

\* Game.__init__
NewGame(startPage, endPage) ==
    [startTree |-> NewTree(startPage, TRUE),
     endTree |-> NewTree(endPage, FALSE),
     searchIndex |-> 0, paths |-> <<>>,
     pc |-> "idle", count |-> 0, targetIndex |-> 0, originalStartIndex |-> 0,
     result |-> <<>>, err |-> "none", hist |-> NoHist]

\* the ancestors of page n in tree t, nearest first (Page.getParent chain)
RECURSIVE ParentChain(_, _)
ParentChain(t, n) ==
    IF t.parent[n] = None THEN <<>>
    ELSE <<t.parent[n]>> \o ParentChain(t, t.parent[n])

\* __getPath as it would be if the start-side ancestors were appended in the
\* order they are walked instead of inserted at the front
getPathUnreversed(st, et, mid) ==
    ParentChain(st, mid) \o <<mid>> \o ParentChain(et, mid)

\* __getPath as it would be if each half brought the meeting page along
getPathMidTwice(st, et, mid) ==
    Reverse(ParentChain(st, mid)) \o <<mid, mid>> \o ParentChain(et, mid)

\* Game.__getPath
getPath(st, et, mid) ==
    Reverse(ParentChain(st, mid)) \o <<mid>> \o ParentChain(et, mid)

\* the choice as it would be if a tie between the two trees went to the end
\* tree
chooseTreeTieToEnd(st, et) ==
    IF \/ st.queueLevel = Len(st.levels) - 2
       \/ /\ et.queueLevel = Len(et.levels) - 1
          /\ Cardinality(st.endpoints) < Cardinality(et.endpoints)
    THEN "start"
    ELSE "end"

\* the choice as it would be if it went by the number of endpoints alone
chooseTreeFewestEndpoints(st, et) ==
    IF Cardinality(st.endpoints) <= Cardinality(et.endpoints)
    THEN "start"
    ELSE "end"

\* the tree the outer loop of search picks: "search the tree that was being
\* searched previously, or the tree with the fewest endpoints"
chooseTree(st, et) ==
    IF \/ st.queueLevel = Len(st.levels) - 2
       \/ /\ et.queueLevel = Len(et.levels) - 1
          /\ Cardinality(st.endpoints) <= Cardinality(et.endpoints)
    THEN "start"
    ELSE "end"

\* return self.paths[originalStartIndex:originalStartIndex + count]
return(s) ==
    LET res == Slice(s.paths, s.originalStartIndex, s.originalStartIndex + s.count)
    IN  [s EXCEPT !.pc = "idle", !.result = res,
                  !.hist.delivered = @ \o res]

\* head of `while self.searchIndex < targetIndex`
outerLoop(s) ==
    IF s.searchIndex < s.targetIndex
    THEN [s EXCEPT !.pc = chooseTree(s.startTree, s.endTree)]
    ELSE return(s)

\* the start of search as it would be without the two exhaustion checks
searchBeginNoCheck(s, c) ==
    LET exhausted == FALSE
        target == s.searchIndex + c
        upto == IF target < Len(s.paths) THEN target ELSE Len(s.paths)
        si == IF upto > s.searchIndex THEN upto ELSE s.searchIndex
        h  == [s.hist EXCEPT !.calls = @ + 1, !.requested = @ + c,
                             !.expands = 0,
                             !.served = IF exhausted THEN 0 ELSE si - s.searchIndex,
                             !.failed = FALSE, !.exhaustedAtStart = exhausted,
                             !.indexAtCall = s.searchIndex,
                             !.storedAtCall = Len(s.paths),
                             !.midAtCall =
                                 IF s.startTree.queueLevel = Len(s.startTree.levels) - 2
                                 THEN "start"
                                 ELSE IF s.endTree.queueLevel = Len(s.endTree.levels) - 2
                                      THEN "end" ELSE "none"]
        s1 == [s EXCEPT !.count = c, !.targetIndex = target,
                        !.originalStartIndex = s.searchIndex, !.hist = h]
    IN  IF exhausted
        THEN [s1 EXCEPT !.pc = "idle", !.result = <<>>]
        ELSE outerLoop([s1 EXCEPT !.searchIndex = si])

\* the start of search as it would be if the stored paths were not served
searchBeginNoServe(s, c) ==
    LET exhausted == s.startTree.endpoints = {} \/ s.endTree.endpoints = {}
        target == s.searchIndex + c
        upto == s.searchIndex
        si == IF upto > s.searchIndex THEN upto ELSE s.searchIndex
        h  == [s.hist EXCEPT !.calls = @ + 1, !.requested = @ + c,
                             !.expands = 0,
                             !.served = IF exhausted THEN 0 ELSE si - s.searchIndex,
                             !.failed = FALSE, !.exhaustedAtStart = exhausted,
                             !.indexAtCall = s.searchIndex,
                             !.storedAtCall = Len(s.paths),
                             !.midAtCall =
                                 IF s.startTree.queueLevel = Len(s.startTree.levels) - 2
                                 THEN "start"
                                 ELSE IF s.endTree.queueLevel = Len(s.endTree.levels) - 2
                                      THEN "end" ELSE "none"]
        s1 == [s EXCEPT !.count = c, !.targetIndex = target,
                        !.originalStartIndex = s.searchIndex, !.hist = h]
    IN  IF exhausted
        THEN [s1 EXCEPT !.pc = "idle", !.result = <<>>]
        ELSE outerLoop([s1 EXCEPT !.searchIndex = si])

\* Game.search up to the first explore: the two exhaustion checks and the
\* serving of the paths that are already stored
searchBegin(s, c) ==
    LET exhausted == s.startTree.endpoints = {} \/ s.endTree.endpoints = {}
        target == s.searchIndex + c
        upto == IF target < Len(s.paths) THEN target ELSE Len(s.paths)
        si == IF upto > s.searchIndex THEN upto ELSE s.searchIndex
        h  == [s.hist EXCEPT !.calls = @ + 1, !.requested = @ + c,
                             !.expands = 0,
                             !.served = IF exhausted THEN 0 ELSE si - s.searchIndex,
                             !.failed = FALSE, !.exhaustedAtStart = exhausted,
                             !.indexAtCall = s.searchIndex,
                             !.storedAtCall = Len(s.paths),
                             !.midAtCall =
                                 IF s.startTree.queueLevel = Len(s.startTree.levels) - 2
                                 THEN "start"
                                 ELSE IF s.endTree.queueLevel = Len(s.endTree.levels) - 2
                                      THEN "end" ELSE "none"]
        s1 == [s EXCEPT !.count = c, !.targetIndex = target,
                        !.originalStartIndex = s.searchIndex, !.hist = h]
    IN  IF exhausted
        THEN [s1 EXCEPT !.pc = "idle", !.result = <<>>]
        ELSE outerLoop([s1 EXCEPT !.searchIndex = si])

\* the pass as it would be if a path were stored only when it is delivered
afterExploreDropOverflow(s, side, r, ms) ==
    LET st == IF side = "start" THEN r.tree ELSE s.startTree
        et == IF side = "end" THEN r.tree ELSE s.endTree
        h  == [s.hist EXCEPT !.expands = @ + 1,
                             !.lastExplore = [side |-> side, ok |-> r.ok]]
        s1 == [s EXCEPT !.startTree = st, !.endTree = et, !.hist = h]
        room == s.targetIndex - s.searchIndex
        n  == IF Len(ms) < room THEN Len(ms) ELSE IF room > 0 THEN room ELSE 0
        found == [i \in 1..n |-> getPath(st, et, ms[i])]
        si == s.searchIndex + n
        s2 == [s1 EXCEPT !.searchIndex = si, !.paths = @ \o found,
                         !.hist.mids = @ \o SubSeq(ms, 1, n)]
    IN  IF ~r.ok
        THEN return([s1 EXCEPT !.hist.failed = TRUE])
        ELSE IF ~r.last /\ si < s.targetIndex
             THEN [s2 EXCEPT !.pc = side]
             ELSE outerLoop(s2)

\* the pass as it would be if searchIndex advanced for every meeting page
afterExploreAlwaysAdvance(s, side, r, ms) ==
    LET st == IF side = "start" THEN r.tree ELSE s.startTree
        et == IF side = "end" THEN r.tree ELSE s.endTree
        h  == [s.hist EXCEPT !.expands = @ + 1,
                             !.lastExplore = [side |-> side, ok |-> r.ok]]
        s1 == [s EXCEPT !.startTree = st, !.endTree = et, !.hist = h]
        n  == Len(ms)
        found == [i \in 1..n |-> getPath(st, et, ms[i])]
        si == s.searchIndex + n
        s2 == [s1 EXCEPT !.searchIndex = si, !.paths = @ \o found,
                         !.hist.mids = @ \o ms]
    IN  IF ~r.ok
        THEN return([s1 EXCEPT !.hist.failed = TRUE])
        ELSE IF ~r.last /\ si < s.targetIndex
             THEN [s2 EXCEPT !.pc = side]
             ELSE outerLoop(s2)

\* one pass of the inner loop on tree `side`: explore has returned r for the
\* popped page; ms is the order in which the meeting pages are iterated
afterExplore(s, side, r, ms) ==
    LET st == IF side = "start" THEN r.tree ELSE s.startTree
        et == IF side = "end" THEN r.tree ELSE s.endTree
        h  == [s.hist EXCEPT !.expands = @ + 1,
                             !.lastExplore = [side |-> side, ok |-> r.ok]]
        s1 == [s EXCEPT !.startTree = st, !.endTree = et, !.hist = h]
        n  == Len(ms)
        found == [i \in 1..n |-> getPath(st, et, ms[i])]
        si == IF s.searchIndex + n < s.targetIndex THEN s.searchIndex + n
              ELSE IF s.searchIndex < s.targetIndex THEN s.targetIndex
              ELSE s.searchIndex
        s2 == [s1 EXCEPT !.searchIndex = si, !.paths = @ \o found,
                         !.hist.mids = @ \o ms]
    IN  IF ~r.ok
        THEN return([s1 EXCEPT !.hist.failed = TRUE])
        ELSE IF ~r.last /\ si < s.targetIndex
             THEN [s2 EXCEPT !.pc = side]
             ELSE outerLoop(s2)

\* the meeting pages as they would be if one explore closed at most one path
meetingOne(s, side, r) ==
    LET m == (IF side = "start" THEN s.endTree.endpoints
              ELSE s.startTree.endpoints) \cap r.new
    IN  IF m = {} THEN {} ELSE {SetMin(m)}

\* the pages of the explored tree's new children that are endpoints of the
\* other tree: endpoints.intersection(res[1])
meeting(s, side, r) ==
    (IF side = "start" THEN s.endTree.endpoints ELSE s.startTree.endpoints)
        \cap r.new

TreeOf(s, side) == IF side = "start" THEN s.startTree ELSE s.endTree

\* one pass of the inner loop, popping page u and iterating the meeting pages
\* in some order
StepsFrom(s, side, g) ==
    IF TreeOf(s, side).queue = {}
    THEN {[s EXCEPT !.pc = "idle", !.err = "KeyError"]}
    ELSE UNION {
           UNION {
             {[afterExplore(s, side, r, ms) EXCEPT !.hist.pops = Append(@, u)]
                 : ms \in Orderings(meeting(s, side, r))}
             : r \in {explore(TreeOf(s, side), u, g)}}
           : u \in TreeOf(s, side).queue}

\* ---------------------------------------------------------------- actions
\* the graphs and the (start, goal) pairs a Game is tried on
Inputs ==
    {in \in GraphsUpTo(MaxEdges) \X RootPairs : Canonical(in[1], in[2])}
        \cup (ScenarioGraphs \X {ScenarioRoots})

Init ==
    \E in \in Inputs :
         LET s == NewGame(in[2][1], in[2][2])
         IN  /\ links = in[1]
             /\ startTree = s.startTree
             /\ endTree = s.endTree
             /\ searchIndex = s.searchIndex
             /\ paths = s.paths
             /\ pc = s.pc
             /\ count = s.count
             /\ targetIndex = s.targetIndex
             /\ originalStartIndex = s.originalStartIndex
             /\ result = s.result
             /\ err = s.err
             /\ hist = s.hist

\* a caller invokes g.search(c)
Search ==
    /\ pc = "idle"
    /\ err = "none"
    /\ hist.calls < MaxCalls
    /\ \E c \in 1..MaxCount : Install(searchBegin(State, c))
    /\ UNCHANGED links

\* res = self.startTree.explore() and the handling of res
ExploreStartTree ==
    /\ pc = "start"
    /\ \E s2 \in StepsFrom(State, "start", links) : Install(s2)
    /\ UNCHANGED links

\* res = self.endTree.explore() and the handling of res
ExploreEndTree ==
    /\ pc = "end"
    /\ \E s2 \in StepsFrom(State, "end", links) : Install(s2)
    /\ UNCHANGED links

Next == Search \/ ExploreStartTree \/ ExploreEndTree

Spec == Init /\ [][Next]_vars

\* search runs to its end once called: the thread that is in the loops of
\* search goes on to its next explore; nothing makes a caller call search
SpecLive ==
    Spec /\ WF_vars(ExploreStartTree) /\ WF_vars(ExploreEndTree)

\* ------------------------------------------- a Tree driven on its own
\* a caller invokes explore() directly on one of the two trees
ExploreCall(side) ==
    /\ err = "none"
    /\ LET t == TreeOf(State, side)
       IN  IF t.queue = {}
           THEN \* self.queue.pop() on an empty set
                /\ err' = "KeyError"
                /\ UNCHANGED <<startTree, endTree, hist>>
           ELSE \E u \in t.queue :
                  LET r == explore(t, u, links)
                  IN  /\ startTree' = IF side = "start" THEN r.tree ELSE startTree
                      /\ endTree' = IF side = "end" THEN r.tree ELSE endTree
                      /\ hist' = hist
                      /\ err' = err
    /\ UNCHANGED <<links, searchIndex, paths, pc, count, targetIndex,
                   originalStartIndex, result>>

ExploreCallStart == ExploreCall("start")

ExploreCallEnd == ExploreCall("end")

NextTree == ExploreCallStart \/ ExploreCallEnd

SpecTree == Init /\ [][NextTree]_vars

\* ------------------------------------------ a search replayed on a fresh Game
\* Game.search run to its return when queue.pop() hands out the pages of
\* pops, in that order, and the meeting pages are iterated as in mids; the
\* run is marked "diverged" when it asks for a pop or an iteration that the
\* record does not hold
RECURSIVE Replay(_, _, _, _)
Replay(s, pops, mids, g) ==
    IF s.pc = "idle" THEN s
    ELSE LET t == TreeOf(s, s.pc)
         IN  IF pops = <<>> \/ Head(pops) \notin t.queue
             THEN [s EXCEPT !.pc = "idle", !.err = "diverged"]
             ELSE LET r == explore(t, Head(pops), g)
                      m == meeting(s, s.pc, r)
                      k == Cardinality(m)
                  IN  IF k > Len(mids) \/ {mids[i] : i \in 1..k} # m
                      THEN [s EXCEPT !.pc = "idle", !.err = "diverged"]
                      ELSE Replay(afterExplore(s, s.pc, r, SubSeq(mids, 1, k)),
                                  Tail(pops), SubSeq(mids, k + 1, Len(mids)), g)

\* a whole call search(c) on a fresh Game, popping as recorded
replaySearch(startPage, endPage, c, pops, mids, g) ==
    Replay(searchBegin(NewGame(startPage, endPage), c), pops, mids, g)

\* --------------------------------------------------- graph-theoretic facts
\* the pages reachable from the set S along at most k links of g
RECURSIVE ReachIn(_, _, _)
ReachIn(g, S, k) ==
    IF k = 0 THEN S
    ELSE LET R == ReachIn(g, S, k - 1)
         IN  R \cup {v \in Pages : \E u \in R : <<u, v>> \in g}

Reachable(g, a, b) == b \in ReachIn(g, {a}, NumNodes + 1)

\* the least k such that b is within k links of a page of S, counted from k0
\* (b reachable from S)
RECURSIVE DistVia(_, _, _, _)
DistVia(g, S, b, k0) ==
    IF b \in S \/ k0 > NumNodes THEN k0
    ELSE DistVia(g, S \cup {v \in Pages : \E u \in S : <<u, v>> \in g}, b, k0 + 1)

\* the least number of links from a to b (b reachable from a)
Dist(g, a, b) == DistVia(g, {a}, b, 0)

\* the depth of page n in tree t (n in some level)
Depth(t, n) == SetMin({d \in 0..(Len(t.levels) - 1) : n \in t.levels[d + 1]})

IsLink(p, g) == \A k \in 1..(Len(p) - 1) : <<p[k], p[k + 1]>> \in g

NoRepeat(p) == \A i, j \in DOMAIN p : i # j => p[i] # p[j]

TypeOK ==
    /\ pc \in {"idle", "start", "end"}
    /\ searchIndex \in 0..Len(paths)

\* ------------------------------------------------------------------ claims
\* C1 Validity: every path found, returned or delivered so far follows the
\* links of the graph: each page of the path links to the page after it.
Validity ==
    /\ \A i \in DOMAIN paths : IsLink(paths[i], links)
    /\ \A i \in DOMAIN result : IsLink(result[i], links)
    /\ \A i \in DOMAIN hist.delivered : IsLink(hist.delivered[i], links)

\* a later call has returned a path of three links
ValidityWitness ==
    /\ pc = "idle"
    /\ hist.calls >= 2
    /\ Len(result) >= 1
    /\ Len(result[1]) = 4

\* C2 Shortest path first: with distinct start and goal, the first path that
\* is delivered has as many links as the shortest distance from start to
\* goal; and a finished call has delivered one whenever the goal is reachable.
ShortestPathFirst ==
    LET a == startTree.root
        b == endTree.root
    IN  a # b =>
          /\ Len(hist.delivered) >= 1 =>
               /\ Reachable(links, a, b)
               /\ Len(hist.delivered[1]) - 1 = Dist(links, a, b)
          /\ (pc = "idle" /\ hist.calls >= 1 /\ Reachable(links, a, b)) =>
               Len(hist.delivered) >= 1

\* the goal is three links away and a path has been delivered
ShortestPathFirstWitness ==
    /\ startTree.root # endTree.root
    /\ Len(hist.delivered) >= 1
    /\ Reachable(links, startTree.root, endTree.root)
    /\ Dist(links, startTree.root, endTree.root) = 3

\* C3 Shortest-first ordering: the paths delivered over the lifetime of the
\* Game never get shorter: no path is delivered after a longer one.
ShortestFirstOrdering ==
    \A i, j \in DOMAIN hist.delivered :
        i < j => Len(hist.delivered[i]) <= Len(hist.delivered[j])

\* a second or later call delivered a path longer than the first one
ShortestFirstOrderingWitness ==
    /\ pc = "idle"
    /\ hist.calls >= 2
    /\ Len(result) >= 1
    /\ Len(hist.delivered[1]) < Len(result[Len(result)])

\* C4 No duplicate path: no two entries of Game.paths are the same sequence
\* of pages.
NoDuplicatePath ==
    \A i, j \in DOMAIN paths : i # j => paths[i] # paths[j]

\* two paths are stored, the second delivered by a second call
NoDuplicatePathWitness ==
    /\ pc = "idle"
    /\ hist.calls >= 2
    /\ Len(paths) >= 2
    /\ searchIndex = 2

\* C5 Pagination consistency: what two or more consecutive calls search(m),
\* search(n), ... have delivered is what a single call search(m + n + ...) on
\* a fresh Game returns when it pops the pending pages, and iterates the
\* meeting pages, in the same order.
PaginationConsistency ==
    (pc = "idle" /\ hist.calls >= 2) =>
        LET single == replaySearch(startTree.root, endTree.root,
                                   hist.requested, hist.pops, hist.mids, links)
        IN  /\ single.err = "none"
            /\ single.result = hist.delivered

\* search(1) then search(2): the second call served a path the first call
\* had found but not delivered, and then explored on for another
PaginationConsistencyWitness ==
    /\ pc = "idle"
    /\ hist.calls = 2
    /\ hist.requested = 3
    /\ count = 2
    /\ hist.served = 1
    /\ hist.expands >= 1
    /\ Len(hist.delivered) = 2

\* C6 Trivial case: when start and goal are the same page, the first
\* search call returns exactly the one-page path and explores nothing.
TrivialCase ==
    (startTree.root = endTree.root /\ pc = "idle" /\ hist.calls = 1) =>
        /\ result = << <<startTree.root>> >>
        /\ hist.expands = 0

\* C7 Exhaustion case: when no page has any link, every search call returns
\* after a single explore at most, raises nothing, returns the empty list and
\* leaves the explored tree exhausted: its explore reported ok = FALSE and it
\* has no endpoints.
ExhaustionCase ==
    links = {} =>
        /\ err = "none"
        /\ pc # "idle" => hist.expands = 0
        /\ (pc = "idle" /\ hist.calls >= 1) =>
             /\ result = <<>>
             /\ paths = <<>>
             /\ hist.lastExplore.side \in {"start", "end"}
             /\ hist.lastExplore.ok = FALSE
             /\ TreeOf(State, hist.lastExplore.side).endpoints = {}

\* a first call and a later call search(2) have returned on the empty graph
ExhaustionCaseWitness ==
    /\ links = {}
    /\ pc = "idle"
    /\ hist.calls >= 2
    /\ count = 2
    /\ hist.exhaustedAtStart

\* C8 Delivered count: a finished call search(count) returned at most count
\* paths: exactly count when no tree was exhausted at the call and no explore
\* reported ok = FALSE during it, fewer otherwise; and searchIndex advanced by
\* the number of paths returned.
DeliveredCount ==
    (pc = "idle" /\ hist.calls >= 1) =>
        /\ Len(result) <= count
        /\ searchIndex - hist.indexAtCall = Len(result)
        /\ (~hist.exhaustedAtStart /\ ~hist.failed) => Len(result) = count
        /\ (hist.exhaustedAtStart \/ hist.failed) => Len(result) < count

\* a later call asked for two paths and returned one, an explore having failed
DeliveredCountWitness ==
    /\ pc = "idle"
    /\ hist.calls >= 2
    /\ count = 2
    /\ hist.failed
    /\ Len(result) = 1

\* C9 Simple paths: every stored path repeats no page and has as many links
\* as the depths of its meeting page in the two trees add up to (stated for
\* distinct start and goal, where a path does not end on the page it starts on).
SimplePaths ==
    startTree.root # endTree.root =>
    \A i \in DOMAIN paths :
        /\ NoRepeat(paths[i])
        /\ Len(paths[i]) - 1 = Depth(startTree, hist.mids[i])
                                 + Depth(endTree, hist.mids[i])

\* C9 as amended: every stored path has as many links as the depths of its
\* meeting page in the two trees add up to, and neither its start-side half
\* nor its goal-side half (each with the meeting page) repeats a page; the
\* whole path repeats no page when start and goal differ and the path is a
\* shortest one.
SimplePathsAmended ==
    \A i \in DOMAIN paths :
        LET p  == paths[i]
            df == Depth(startTree, hist.mids[i])
            dr == Depth(endTree, hist.mids[i])
        IN  /\ Len(p) - 1 = df + dr
            /\ p[df + 1] = hist.mids[i]
            /\ NoRepeat(SubSeq(p, 1, df + 1))
            /\ NoRepeat(SubSeq(p, df + 1, Len(p)))
            /\ (startTree.root # endTree.root
                /\ Len(p) - 1 = Dist(links, startTree.root, endTree.root))
                  => NoRepeat(p)

\* between distinct start and goal a path is stored whose two halves share a
\* page besides the meeting page
SimplePathsAmendedWitness ==
    /\ startTree.root # endTree.root
    /\ \E i \in DOMAIN paths : ~NoRepeat(paths[i])

\* C10 explore never raises: no sequence of explore() calls on a tree ends
\* in an exception.
ExploreNeverRaises == err = "none"

\* the Game is the scenario's: start page 1 (A) links to exactly 2 and 3 (B and
\* C), goal page 4 (D) is linked from exactly 2 and 5 (B and E)
ScenarioCase ==
    /\ <<startTree.root, endTree.root>> = ScenarioRoots
    /\ {v \in Pages : <<startTree.root, v>> \in links} = {2, 3}
    /\ {v \in Pages : <<v, endTree.root>> \in links} = {2, 5}

Trees == {startTree, endTree}

\* C12 Frontier endpoint invariant: in every state of a tree, also in the
\* middle of a level, every page of endpoints is in the last level of levels.
EndpointsInLastLevel ==
    \A t \in Trees : t.endpoints \subseteq t.levels[Len(t.levels)]

\* page n keeps its level and its parent from tree t to tree u
KeepsPlace(t, u, n) ==
    n \in AllLevels(t.levels) =>
        /\ n \in AllLevels(u.levels)
        /\ Depth(u, n) = Depth(t, n)
        /\ u.parent[n] = t.parent[n]

\* C13 First discovery wins: in every state of a tree each page is in at most
\* one level, and an explore() leaves every page that is in a level in that
\* level and with the parent it has.
FirstDiscoveryWins ==
    /\ [](\A t \in Trees : \A i, j \in DOMAIN t.levels :
            i # j => t.levels[i] \cap t.levels[j] = {})
    /\ [][\A n \in Pages : /\ KeepsPlace(startTree, startTree', n)
                           /\ KeepsPlace(endTree, endTree', n)]_vars

\* a page that is in a level has been found again: a page other than its
\* parent, at its depth or deeper, has been expanded and has it as a child
FirstDiscoveryWinsWitness ==
    \E t \in Trees : \E n, u \in AllLevels(t.levels) :
        /\ n \in getChildren(t, u, links)
        /\ n # t.root
        /\ u # t.parent[n]
        /\ u \notin t.endpoints
        /\ Depth(t, u) >= Depth(t, n)

\* the pages within d links of the root of tree t along the tree's direction:
\* out of the root for the starting tree, into it for the ending tree
Within(t, d, g) ==
    IF d < 0 THEN {}
    ELSE IF t.isStarting THEN ReachIn(g, {t.root}, d)
         ELSE ReachIn({<<e[2], e[1]>> : e \in g}, {t.root}, d)

\* C14 Shortest-distance levels: in every state of a tree a page of levels[d]
\* is within d links of the root along the tree's direction and not within
\* d - 1, and its parent chain has d links, each a link of the graph in the
\* tree's direction, and ends at the root.
ShortestDistanceLevels ==
    \A t \in Trees : \A d \in 0..(Len(t.levels) - 1) :
        LET exactly == Within(t, d, links) \ Within(t, d - 1, links)
        IN  /\ t.levels[d + 1] \subseteq exactly
            /\ \A n \in t.levels[d + 1] :
                  LET chain == <<n>> \o ParentChain(t, n)
                  IN  /\ Len(chain) = d + 1
                      /\ chain[d + 1] = t.root
                      /\ \A k \in 1..d :
                            chain[k] \in getChildren(t, chain[k + 1], links)

\* a page sits two links from the root of a tree though a longer way leads to
\* it too: it is also a child of an expanded page of its own level
ShortestDistanceLevelsWitness ==
    \E t \in Trees : \E n, u \in AllLevels(t.levels) :
        /\ Depth(t, n) = 2
        /\ Depth(t, u) = 2
        /\ u # n
        /\ n \in getChildren(t, u, links)
        /\ u \notin t.endpoints

\* tree t is in the middle of a level: a page of the level it draws from has
\* been expanded and the level is not drained
MidLevel(t) == t.queueLevel = Len(t.levels) - 2

\* C15 Level drain before switching: while a tree is in the middle of a level
\* no step, of this call or of a later one, expands the other tree; and the
\* two trees are never both in the middle of a level.
LevelDrainBeforeSwitching ==
    /\ [](~(MidLevel(startTree) /\ MidLevel(endTree)))
    /\ [][/\ MidLevel(startTree) => endTree' = endTree
          /\ MidLevel(endTree) => startTree' = startTree]_vars

\* a call stopped in the middle of a level of the starting tree and the next
\* call is about to expand that tree again, though it has more endpoints than
\* the ending tree
LevelDrainBeforeSwitchingWitness ==
    /\ hist.calls >= 2
    /\ hist.midAtCall = "start"
    /\ hist.expands = 0
    /\ pc = "start"
    /\ MidLevel(startTree)
    /\ Cardinality(startTree.endpoints) > Cardinality(endTree.endpoints)

\* tree t has expanded a page of its depth d
ExpandedAt(t, d) ==
    /\ d + 1 <= Len(t.levels)
    /\ t.levels[d + 1] \ t.endpoints # {}

\* tree t has a page of its depth d that is not expanded
UnexpandedAt(t, d) ==
    /\ d + 1 <= Len(t.levels)
    /\ t.levels[d + 1] \cap t.endpoints # {}

\* C16 Depth synchronization: with distinct start and goal, no tree has
\* expanded a page of depth d + 1 while the other tree still has a page of
\* depth d that is not expanded.
DepthSynchronization ==
    startTree.root # endTree.root =>
      \A d \in 0..NumNodes :
        /\ ExpandedAt(startTree, d + 1) => ~UnexpandedAt(endTree, d)
        /\ ExpandedAt(endTree, d + 1) => ~UnexpandedAt(startTree, d)

\* C16 as amended: each tree expands its own depths in order, no page of its
\* depth d + 1 before all pages of its depth d, and the two trees are never
\* both in the middle of a level; the depths of the two trees are not tied
\* to each other.
DepthOrderPerTree ==
    /\ \A t \in Trees : \A d \in 0..NumNodes :
           ExpandedAt(t, d + 1) => ~UnexpandedAt(t, d)
    /\ ~(MidLevel(startTree) /\ MidLevel(endTree))

\* the starting tree has expanded a page of depth 1, having no more endpoints
\* than the ending tree, whose root is not expanded yet
DepthOrderPerTreeWitness ==
    /\ startTree.root # endTree.root
    /\ ExpandedAt(startTree, 1)
    /\ UnexpandedAt(endTree, 0)
    /\ hist.calls >= 1

\* the pages tree u has in its levels and tree t, its state before, has not
NewPages(t, u) == AllLevels(u.levels) \ AllLevels(t.levels)

\* the number of stored paths not delivered when the current call began
Buffered == hist.storedAtCall - hist.indexAtCall

\* C17 Overflow buffering: every explore of a search stores one path for each
\* new page that is an endpoint of the other tree, after the paths stored
\* before, and advances searchIndex by their number but not past the target;
\* a call first serves the stored paths not yet delivered, as many as it
\* asks for, in stored order; and a call they cover made no explore and
\* stored nothing.
OverflowBuffering ==
    /\ [][pc # "idle" =>
            LET met == (NewPages(startTree, startTree') \cap endTree.endpoints)
                         \cup (NewPages(endTree, endTree') \cap startTree.endpoints)
                n == Cardinality(met)
            IN  /\ Len(paths') = Len(paths) + n
                /\ SubSeq(paths', 1, Len(paths)) = paths
                /\ \A m \in met : \E i \in (Len(paths) + 1)..Len(paths') :
                       paths'[i][Depth(startTree', m) + 1] = m
                /\ searchIndex' = IF searchIndex + n < targetIndex
                                  THEN searchIndex + n
                                  ELSE IF searchIndex < targetIndex
                                       THEN targetIndex ELSE searchIndex]_vars
    /\ []((hist.calls >= 1 /\ ~hist.exhaustedAtStart) =>
            /\ hist.served = (IF Buffered < count THEN Buffered ELSE count)
            /\ pc = "idle" =>
                 /\ hist.delivered = Slice(paths, 0, searchIndex)
                 /\ SubSeq(result, 1, hist.served)
                      = Slice(paths, hist.indexAtCall, hist.indexAtCall + hist.served)
            /\ Buffered >= count =>
                 /\ pc = "idle"
                 /\ hist.expands = 0
                 /\ Len(paths) = hist.storedAtCall
                 /\ Len(result) = count)

\* search(1) found two paths in one explore and delivered one; the next call
\* search(1) returned the other without an explore
OverflowBufferingWitness ==
    /\ pc = "idle"
    /\ hist.calls = 2
    /\ ~hist.exhaustedAtStart
    /\ hist.requested = 2
    /\ Buffered >= 1
    /\ hist.expands = 0
    /\ result = <<paths[2]>>
    /\ hist.delivered = <<paths[1], paths[2]>>

\* C18 Exhausted search does no work: a call of search made when a tree has
\* no endpoints returns the empty list at once, with searchIndex, paths and
\* both trees as they were and without an explore.
ExhaustedSearchNoWork ==
    [][(/\ pc = "idle"
        /\ hist'.calls = hist.calls + 1
        /\ startTree.endpoints = {} \/ endTree.endpoints = {})
       => /\ pc' = "idle"
          /\ err' = err
          /\ result' = <<>>
          /\ searchIndex' = searchIndex
          /\ paths' = paths
          /\ startTree' = startTree
          /\ endTree' = endTree
          /\ hist'.expands = 0
          /\ hist'.delivered = hist.delivered]_vars

\* a call has found and delivered a path and exhausted a tree, and the next
\* call has returned the empty list
ExhaustedSearchNoWorkWitness ==
    /\ pc = "idle"
    /\ hist.calls = 2
    /\ hist.exhaustedAtStart
    /\ Len(hist.delivered) >= 1
    /\ result = <<>>
    /\ startTree.endpoints = {} \/ endTree.endpoints = {}

\* C19 No found path is stranded: searchIndex is between 0 and the number of
\* stored paths, and equals it whenever a tree has no endpoints.
NoStrandedPath ==
    /\ 0 <= searchIndex
    /\ searchIndex <= Len(paths)
    /\ (startTree.endpoints = {} \/ endTree.endpoints = {}) =>
           searchIndex = Len(paths)

\* a call began with a stored path not yet delivered, served it, explored on
\* and exhausted a tree
NoStrandedPathWitness ==
    /\ pc = "idle"
    /\ Buffered >= 1
    /\ hist.served >= 1
    /\ hist.failed
    /\ startTree.endpoints = {} \/ endTree.endpoints = {}

\* the level below the one tree t draws its queue from, empty when there is
\* none (levels[queueLevel + 1] in the code's indexing)
NextLevel(t) ==
    IF t.queueLevel + 2 <= Len(t.levels) THEN t.levels[t.queueLevel + 2] ELSE {}

\* C20 Endpoint/queue coupling: in every state of a tree endpoints is the
\* union of queue and the level below the queue's; in particular queue is a
\* subset of endpoints.
EndpointQueueCoupling ==
    \A t \in Trees :
        /\ t.endpoints = t.queue \cup NextLevel(t)
        /\ t.queue \subseteq t.endpoints

\* a tree in the middle of a level below the root's, with pages left in the
\* queue and children found already
EndpointQueueCouplingWitness ==
    \E t \in Trees :
        /\ MidLevel(t)
        /\ t.queueLevel >= 1
        /\ t.queue # {}
        /\ NextLevel(t) # {}

\* the pages of tree t that have been expanded
Expanded(t) == AllLevels(t.levels) \ t.endpoints

\* tree t expands exactly one page, not expanded before, on the way to tree u
ExpandsOne(t, u) ==
    \E n \in t.queue \ Expanded(t) : Expanded(u) = Expanded(t) \cup {n}

\* C21 Termination: a search call that has begun returns; every step of the
\* loops of search, so every iteration of the outer loop, expands one page of
\* the tree chosen and leaves the other tree alone; and no page of a tree is
\* expanded twice: an expanded page never comes back into the queue or the
\* endpoints.
Termination ==
    /\ (pc # "idle") ~> (pc = "idle")
    /\ [][/\ pc = "start" => ExpandsOne(startTree, startTree') /\ endTree' = endTree
          /\ pc = "end" => ExpandsOne(endTree, endTree') /\ startTree' = startTree
          /\ pc # "idle" => hist'.expands = hist.expands + 1
          /\ \A n \in Expanded(startTree) :
                n \in Expanded(startTree') /\ n \notin startTree'.queue
          /\ \A n \in Expanded(endTree) :
                n \in Expanded(endTree') /\ n \notin endTree'.queue]_vars

\* a call has returned all the paths asked for after five explores or more
TerminationWitness ==
    /\ pc = "idle"
    /\ hist.calls >= 1
    /\ hist.expands >= 5
    /\ ~hist.failed
    /\ Len(result) = count

====
